---- MODULE Spec2Model ----
(***************************************************************************)
(* A model of the two StrapiClient variants of this repository:            *)
(*   variant "A" = src/unnamed/part_000 (localized write is a POST)        *)
(*   variant "B" = src/unnamed/part_001 (localized write is a PUT)         *)
(* Every public method is an async function: it runs until its next        *)
(* `await this.request(...)`, the transport produces an outcome, and the   *)
(* method resumes.  One action models one such resumption.                 *)
(***************************************************************************)
EXTENDS Integers, Sequences, FiniteSets, TLC

VARIABLES
    variant,    \* which client implementation is under test
    mode,       \* "mock": scripted transport (as in the test suites); "server": a shared store
    call,       \* per caller: the public method invoked and its arguments
    frame,      \* per caller: the position inside the running method and its locals
    inflight,   \* per caller: the request handed to fetch and not yet answered
    reqs,       \* per caller: the requests issued by the current invocation, in order
    outs,       \* per caller: the transport outcomes received by the current invocation
    result,     \* per caller: what the invocation returned (or that it threw)
    store,      \* server mode: the entries the server holds
    nextId,     \* server mode: the next identifier the server hands out
    calls,      \* server mode: number of invocations started per caller
    ctor,       \* the options the client was constructed from (baseURL, uid, token)
    baseURL,    \* the client's stored base URL (empty before construction)
    headers,    \* the client's stored header set
    uid,        \* the client's stored resource name
    sent        \* per caller: what fetch was called with by the current invocation, in order

vars == <<variant, mode, call, frame, inflight, reqs, outs, result, store, nextId, calls,
          ctor, baseURL, headers, uid, sent>>

----------------------------------------------------------------------------
(* JavaScript values.                                                      *)

\* `undefined` for string-or-number typed slots (locale, id, documentId, filters, method)
Undef == "<undefined>"
\* `null` / `undefined` for object typed slots (response, data, err)
NullV == [k |-> "null"]

\* numbers are written "#n" so that they share a type with strings
NumText == [n \in {"#0", "#1", "#2", "#3", "#4", "#5", "#6", "#7", "#8"} |->
              CASE n = "#0" -> "0" [] n = "#1" -> "1" [] n = "#2" -> "2" [] n = "#3" -> "3"
                [] n = "#4" -> "4" [] n = "#5" -> "5" [] n = "#6" -> "6" [] n = "#7" -> "7"
                [] n = "#8" -> "8"]

\* truthiness of a string-or-number slot: undefined, "" and 0 are falsy
Truthy(v) == v \notin {Undef, "", "#0"}

\* template-literal conversion `${v}`
Str(v) == IF v = Undef THEN "undefined"
          ELSE IF v \in DOMAIN NumText THEN NumText[v]
          ELSE v

\* a plain object as its list of <<key, value>> entries in insertion order
Has(obj, key) == \E i \in 1..Len(obj) : obj[i][1] = key
Put(obj, key, val) ==
    IF Has(obj, key)
    THEN [i \in 1..Len(obj) |-> IF obj[i][1] = key THEN <<key, val>> ELSE obj[i]]
    ELSE Append(obj, <<key, val>>)

\* object spread { ...a, ...b }
RECURSIVE Spread(_, _)
Spread(a, b) == IF b = <<>> THEN a ELSE Spread(Put(a, b[1][1], b[1][2]), Tail(b))

Entity(id, documentId) == [k |-> "rec", id |-> id, documentId |-> documentId]
List(items) == [k |-> "list", items |-> items]
Obj(data) == [k |-> "obj", data |-> data]
Unparsable == [k |-> "unparsable", msg |-> "Unexpected end of JSON input"]

\* a returned tuple [err, data]
Pair(err, data) == [k |-> "pair", err |-> err, data |-> data]
\* a rejected promise
Thrown == [k |-> "throw", name |-> "TypeError"]
NoResult == [k |-> "none"]
NoReq == [k |-> "none"]
NoBody == [k |-> "none"]

----------------------------------------------------------------------------
(* The constructor.  A URL is the sequence of its pieces: the origin, "/"  *)
(* characters and path segment texts.                                      *)

Host == "http://localhost"
Slash == "/"
ApiSeg == "api"

\* baseURL.replace(/\/+$/, "")
RECURSIVE stripTrailingSlashes(_)
stripTrailingSlashes(url) ==
    IF url # <<>> /\ url[Len(url)] = Slash
    THEN stripTrailingSlashes(SubSeq(url, 1, Len(url) - 1))
    ELSE url

\* apiUrl.endsWith("/api")
endsWithApi(url) ==
    Len(url) >= 2 /\ url[Len(url)] = ApiSeg /\ url[Len(url) - 1] = Slash

\* the constructor appending "/api" without looking at the end of the URL
constructor_baseURL_alwaysAppends(raw) ==
    stripTrailingSlashes(raw) \o <<Slash, ApiSeg>>

\* the apiUrl the constructor stores in this.baseURL
constructor_baseURL(raw) ==
    LET apiUrl == stripTrailingSlashes(raw) IN
    IF ~endsWithApi(apiUrl) THEN apiUrl \o <<Slash, ApiSeg>> ELSE apiUrl

\* the template literal `Bearer ${token}` for the tokens tried
BearerText == ("test-token" :> "Bearer test-token") @@ ("t2" :> "Bearer t2")

\* { "Content-Type": "application/json", ...(token && { Authorization: `Bearer ${token}` }) }
constructor_headers(token) ==
    Spread(<<<<"Content-Type", "application/json">>>>,
           IF Truthy(token) THEN <<<<"Authorization", BearerText[token]>>>> ELSE <<>>)

----------------------------------------------------------------------------
(* The transport.                                                          *)

Reject(msg) == [t |-> "reject", msg |-> msg]
Http(status, statusText, body) ==
    [t |-> "resp", status |-> status, statusText |-> statusText, body |-> body]

\* Response.ok
Ok(o) == o.status >= 200 /\ o.status <= 299

\* the uid option of the tests
TestUid == "test-entities"

Request(method, path, query, body) ==
    [method |-> method, path |-> path, query |-> query, body |-> body]

\* fetch treats an absent method as GET
EffMethod(r) == IF r.method = Undef THEN "GET" ELSE r.method

\* options.headers of a request: the public methods pass none
OptHeaders(options) == IF "headers" \in DOMAIN options THEN options.headers ELSE <<>>

\* fetch called with the options as given: { ...options } without the default headers
fetchArgs_optionsOnly(base, hdrs, options) ==
    [url |-> [base |-> base, path |-> options.path, query |-> options.query],
     method |-> options.method,
     body |-> options.body,
     headers |-> OptHeaders(options)]

\* what request() calls fetch with: the url `${this.baseURL}/${normalizedEndpoint}` and
\* { ...options, headers: { ...this.headers, ...options.headers } }
fetchArgs(base, hdrs, options) ==
    [url |-> [base |-> base, path |-> options.path, query |-> options.query],
     method |-> options.method,
     body |-> options.body,
     headers |-> Spread(hdrs, OptHeaders(options))]

\* request, its parse error carrying no status
request_parseErrorNoStatus(options, o) ==
    IF o.t = "reject"
    THEN Pair([message |-> <<"Strapi API error:", o.msg>>], NullV)
    ELSE IF ~Ok(o)
    THEN Pair([message |-> <<"Strapi API error:", ToString(o.status), o.statusText>>,
               status |-> o.status], NullV)
    ELSE IF o.body.k = "unparsable"
    THEN IF options.method = "DELETE"
         THEN Pair(NullV, Obj(NullV))
         ELSE Pair([message |-> <<"Strapi API error: Failed to parse JSON response -", o.body.msg>>],
                   NullV)
    ELSE Pair(NullV, o.body)

\* request, falling back to {data: null} on a parse failure whatever the method
request_suppressAlways(options, o) ==
    IF o.t = "reject"
    THEN Pair([message |-> <<"Strapi API error:", o.msg>>], NullV)
    ELSE IF ~Ok(o)
    THEN Pair([message |-> <<"Strapi API error:", ToString(o.status), o.statusText>>,
               status |-> o.status], NullV)
    ELSE IF o.body.k = "unparsable"
    THEN Pair(NullV, Obj(NullV))
    ELSE Pair(NullV, o.body)

\* private async request<R>(endpoint, options): the [err, data] it resolves to
request(options, o) ==
    IF o.t = "reject"
    THEN Pair([message |-> <<"Strapi API error:", o.msg>>], NullV)
    ELSE IF ~Ok(o)
    THEN Pair([message |-> <<"Strapi API error:", ToString(o.status), o.statusText>>,
               status |-> o.status], NullV)
    ELSE IF o.body.k = "unparsable"
    THEN IF options.method = "DELETE"
         THEN Pair(NullV, Obj(NullV))
         ELSE Pair([message |-> <<"Strapi API error: Failed to parse JSON response -", o.body.msg>>,
                    status |-> o.status], NullV)
    ELSE Pair(NullV, o.body)

\* qs.stringify(params, {arrayFormat: "indices", encode: true}): one key=value per entry
\* whose value is defined, in insertion order
RECURSIVE stringify(_)
stringify(params) ==
    IF params = <<>> THEN <<>>
    ELSE IF params[1][2] = Undef THEN stringify(Tail(params))
    ELSE <<<<params[1][1], Str(params[1][2])>>>> \o stringify(Tail(params))

\* a query string: the "?" mark (or nothing) and the key=value pairs that follow it
NoQuery == [mark |-> "", pairs |-> <<>>]
Query(pairs) == [mark |-> "?", pairs |-> pairs]

\* private getQueryString(params)
getQueryString(params) ==
    IF Len(params) = 0 THEN NoQuery ELSE Query(stringify(params))

\* response?.data
OptData(response) == IF response = NullV THEN NullV ELSE response.data

\* JSON.stringify(payload)
Body(payload) == [k |-> "json", payload |-> payload, dataLocale |-> Undef]
\* JSON.stringify({...payload, data: {...payload.data, locale: "en"}})
BodyEn(payload) == [k |-> "json", payload |-> payload, dataLocale |-> "en"]

----------------------------------------------------------------------------
(* The methods, as what they do between two awaits.  A step is either the  *)
(* next request together with the frame that waits for it, or the value    *)
(* the method returns.                                                     *)

Args(id, payload, params, filters, locale) ==
    [id |-> id, payload |-> payload, params |-> params, filters |-> filters, locale |-> locale]

Await(stage, a, req) ==
    [frame |-> [stage |-> stage, a |-> a], req |-> req, result |-> NoResult]
Return(res) ==
    [frame |-> [stage |-> "done"], req |-> NoReq, result |-> res]

\* `locale = "en"` in a destructuring pattern
DefaultLocale(locale) == IF locale = Undef THEN "en" ELSE locale

\* the locale entry without the comparison with "en"
LocaleEntry_whenSet(locale) ==
    IF Truthy(locale) THEN <<<<"locale", locale>>>> ELSE <<>>

\* ...(locale && locale !== "en" ? { locale } : {})
LocaleEntry(locale) ==
    IF Truthy(locale) /\ locale # "en" THEN <<<<"locale", locale>>>> ELSE <<>>

\* ...(filters ? { filters } : {})
FiltersEntry(filters) ==
    IF filters # Undef THEN <<<<"filters", filters>>>> ELSE <<>>

\* findMany(params, locale): the GET it issues
findMany_request(params, locale) ==
    Request("GET", <<uid>>, getQueryString(Spread(params, LocaleEntry(locale))), NoBody)

\* findMany without its `if (err) return [err, null]`
findMany_return_noGuard(rr) ==
    Pair(rr.err, IF OptData(rr.data) = NullV THEN List(<<>>) ELSE OptData(rr.data))

\* findMany without its `?? []`
findMany_return_nullData(rr) ==
    IF rr.err # NullV THEN Pair(rr.err, NullV) ELSE Pair(NullV, OptData(rr.data))

\* findMany: what it returns once request() has resolved to rr
findMany_return(rr) ==
    IF rr.err # NullV THEN Pair(rr.err, NullV)
    ELSE Pair(NullV, IF OptData(rr.data) = NullV THEN List(<<>>) ELSE OptData(rr.data))

\* find with id: if (err) return [err, null]; return [null, response?.data ?? null]
find_return(rr) ==
    IF rr.err # NullV THEN Pair(rr.err, NullV) ELSE Pair(NullV, OptData(rr.data))

\* find, delegating as findMany(params) without the locale
find_start_dropsLocale(a) ==
    IF Truthy(a.id)
    THEN Await("find.request", a,
               Request("GET", <<uid, Str(a.id)>>,
                       getQueryString(Spread(a.params, LocaleEntry(a.locale))), NoBody))
    ELSE Await("find.findMany", a, findMany_request(a.params, Undef))

\* find, asking for the item without the query string
find_start_idNoQuery(a) ==
    IF Truthy(a.id)
    THEN Await("find.request", a, Request("GET", <<uid, Str(a.id)>>, NoQuery, NoBody))
    ELSE Await("find.findMany", a, findMany_request(a.params, a.locale))

\* find(options), up to its first await
find_start(a) ==
    IF Truthy(a.id)
    THEN Await("find.request", a,
               Request("GET", <<uid, Str(a.id)>>,
                       getQueryString(Spread(a.params, LocaleEntry(a.locale))), NoBody))
    ELSE Await("find.findMany", a, findMany_request(a.params, a.locale))

\* find without id, after findMany returned
find_afterFindMany(pair) ==
    IF pair.err # NullV THEN Pair(pair.err, NullV)
    ELSE Pair(NullV, IF Len(pair.data.items) > 0 THEN pair.data.items[1] ELSE NullV)

----------------------------------------------------------------------------
(* create, variant A (part_000).                                           *)

\* the localized write: POST uid/{baseId}?{...params, locale}
create_A_localized(a, baseId) ==
    Await("create.localized", a,
          Request("POST", <<uid, Str(baseId)>>,
                  getQueryString(Spread(a.params, <<<<"locale", DefaultLocale(a.locale)>>>>)),
                  Body(a.payload)))

\* the base creation: POST uid{paramQuery}
create_A_base(a) ==
    Await("create.base", a,
          Request("POST", <<uid>>, getQueryString(a.params), Body(a.payload)))

\* create(options), up to its first await
create_A_start(a) ==
    IF DefaultLocale(a.locale) = "en"
    THEN Await("create.default", a,
               Request("POST", <<uid>>, getQueryString(a.params), Body(a.payload)))
    ELSE Await("create.search", a,
               Request(Undef, <<uid>>,
                       getQueryString(Spread(a.params, FiltersEntry(a.filters))), NoBody))

\* default locale: if (err) return [err, null]; return [null, response?.data ?? null]
create_A_afterDefault(rr) ==
    IF rr.err # NullV THEN Pair(rr.err, NullV) ELSE Pair(NullV, OptData(rr.data))

\* the found record is never used
create_A_found_never(enResponse) == FALSE

\* enResponse?.data && enResponse.data.length > 0 && enResponse?.data?.[0]?.documentId
create_A_found(enResponse) ==
    /\ OptData(enResponse) # NullV
    /\ Len(OptData(enResponse).items) > 0
    /\ OptData(enResponse).items[1] # NullV
    /\ Truthy(OptData(enResponse).items[1].documentId)

\* the discovery search's error is not looked at
create_A_afterSearch_noErrCheck(a, rr) ==
    IF rr.err = NullV /\ create_A_found(rr.data)
    THEN create_A_localized(a, rr.data.data.items[1].documentId)
    ELSE create_A_base(a)

\* create giving up when the discovery search finds no base
create_A_afterSearch_noCreate(a, rr) ==
    IF rr.err # NullV THEN Return(Pair(rr.err, NullV))
    ELSE IF create_A_found(rr.data)
    THEN create_A_localized(a, rr.data.data.items[1].documentId)
    ELSE Return(Pair(NullV, NullV))

\* after the discovery search
create_A_afterSearch(a, rr) ==
    IF rr.err # NullV THEN Return(Pair(rr.err, NullV))
    ELSE IF create_A_found(rr.data)
    THEN create_A_localized(a, rr.data.data.items[1].documentId)
    ELSE create_A_base(a)

\* the localized write addressed by the created record's numeric id
create_A_afterBase_numericId(a, rr) ==
    IF rr.err # NullV THEN Return(Pair(rr.err, NullV))
    ELSE IF rr.data = NullV THEN Return(Pair(rr.err, NullV))
    ELSE IF rr.data.data = NullV THEN Return(Thrown)
    ELSE IF ~Truthy(rr.data.data.documentId) THEN Return(Pair(rr.err, NullV))
    ELSE create_A_localized(a, rr.data.data.id)

\* after the base creation:
\*   if (createErr || !createResponse?.data.documentId) return [createErr, null]
create_A_afterBase(a, rr) ==
    IF rr.err # NullV THEN Return(Pair(rr.err, NullV))
    ELSE IF rr.data = NullV THEN Return(Pair(rr.err, NullV))
    ELSE IF rr.data.data = NullV THEN Return(Thrown)
    ELSE IF ~Truthy(rr.data.data.documentId) THEN Return(Pair(rr.err, NullV))
    ELSE create_A_localized(a, rr.data.data.documentId)

\* create_A_afterLocalized, dropping a record that carries no documentId
create_A_afterLocalized_needsDoc(rr) ==
    IF rr.err # NullV THEN Pair(rr.err, NullV)
    ELSE IF rr.data = NullV \/ rr.data.data = NullV THEN Pair(NullV, NullV)
    ELSE IF ~Truthy(rr.data.data.documentId) THEN Pair(NullV, NullV)
    ELSE Pair(NullV, rr.data.data)

\* after the localized write
create_A_afterLocalized(rr) ==
    IF rr.err # NullV THEN Pair(rr.err, NullV) ELSE Pair(NullV, OptData(rr.data))

----------------------------------------------------------------------------
(* create, variant B (part_001).                                           *)

\* the localized write: PUT uid/{baseId}?locale={locale}
create_B_localized(a, baseId) ==
    Await("create.localized", a,
          Request("PUT", <<uid, Str(baseId)>>,
                  Query(<<<<"locale", Str(DefaultLocale(a.locale))>>>>),
                  Body(a.payload)))

\* the base creation: POST uid with locale "en" written into the payload's data
create_B_base(a) ==
    Await("create.base", a, Request("POST", <<uid>>, NoQuery, BodyEn(a.payload)))

\* create(options), up to its first await
create_B_start(a) ==
    IF DefaultLocale(a.locale) = "en"
    THEN Await("create.default", a, Request("POST", <<uid>>, NoQuery, Body(a.payload)))
    ELSE Await("create.search", a,
               Request(Undef, <<uid>>,
                       getQueryString(Spread(Spread(a.params, FiltersEntry(a.filters)),
                                             <<<<"locale", "en">>>>)),
                       NoBody))

\* default locale: if (err) return [err, null]; return [null, response?.data ?? null]
create_B_afterDefault(rr) ==
    IF rr.err # NullV THEN Pair(rr.err, NullV) ELSE Pair(NullV, OptData(rr.data))

\* any non-empty result counts as found
create_B_found_anyRecord(enResponse) ==
    /\ OptData(enResponse) # NullV
    /\ Len(OptData(enResponse).items) > 0

\* the discovered record is never used
create_B_found_never(enResponse) == FALSE

\* enResponse?.data && enResponse.data.length > 0 && enResponse.data[0]
\*   && enResponse.data[0].documentId
create_B_found(enResponse) ==
    /\ OptData(enResponse) # NullV
    /\ Len(OptData(enResponse).items) > 0
    /\ OptData(enResponse).items[1] # NullV
    /\ Truthy(OptData(enResponse).items[1].documentId)

\* create issuing the base creation although the discovery search found a base
create_B_afterSearch_postAnyway(a, rr) ==
    IF rr.err # NullV THEN Return(Pair(rr.err, NullV))
    ELSE create_B_base(a)

\* after the discovery search
create_B_afterSearch(a, rr) ==
    IF rr.err # NullV THEN Return(Pair(rr.err, NullV))
    ELSE IF create_B_found(rr.data)
    THEN create_B_localized(a, rr.data.data.items[1].documentId)
    ELSE create_B_base(a)

\* create_B_afterBase, issuing the base creation again when it failed
create_B_afterBase_retry(a, rr) ==
    IF rr.err # NullV THEN create_B_base(a)
    ELSE IF rr.data = NullV THEN Return(Pair(rr.err, NullV))
    ELSE IF rr.data.data = NullV THEN Return(Thrown)
    ELSE IF ~Truthy(rr.data.data.documentId) THEN Return(Pair(rr.err, NullV))
    ELSE create_B_localized(a, rr.data.data.documentId)

\* after the base creation:
\*   if (createErr || !createResponse?.data.documentId) return [createErr, null]
create_B_afterBase(a, rr) ==
    IF rr.err # NullV THEN Return(Pair(rr.err, NullV))
    ELSE IF rr.data = NullV THEN Return(Pair(rr.err, NullV))
    ELSE IF rr.data.data = NullV THEN Return(Thrown)
    ELSE IF ~Truthy(rr.data.data.documentId) THEN Return(Pair(rr.err, NullV))
    ELSE create_B_localized(a, rr.data.data.documentId)

\* after the localized write:
\*   if (localeErr || !localeResponse?.data.documentId) return [localeErr, null]
\*   return [null, localeResponse.data]
create_B_afterLocalized(rr) ==
    IF rr.err # NullV THEN Pair(rr.err, NullV)
    ELSE IF rr.data = NullV THEN Pair(rr.err, NullV)
    ELSE IF rr.data.data = NullV THEN Thrown
    ELSE IF ~Truthy(rr.data.data.documentId) THEN Pair(rr.err, NullV)
    ELSE Pair(NullV, rr.data.data)

----------------------------------------------------------------------------
(* create of the variant under test.                                       *)

\* create(options), up to its first await
create_start(v, a) == IF v = "A" THEN create_A_start(a) ELSE create_B_start(a)

\* create, from the await of frame f (request req, transport outcome o) to its next
\* await or its return
create_resume(v, f, req, o) ==
    IF f.stage = "create.default"
    THEN Return(IF v = "A" THEN create_A_afterDefault(request(req, o))
                ELSE create_B_afterDefault(request(req, o)))
    ELSE IF f.stage = "create.search"
    THEN IF v = "A" THEN create_A_afterSearch(f.a, request(req, o))
         ELSE create_B_afterSearch(f.a, request(req, o))
    ELSE IF f.stage = "create.base"
    THEN IF v = "A" THEN create_A_afterBase(f.a, request(req, o))
         ELSE create_B_afterBase(f.a, request(req, o))
    ELSE Return(IF v = "A" THEN create_A_afterLocalized(request(req, o))
                ELSE create_B_afterLocalized(request(req, o)))

\* the requests create issues, one after the other, when called with arguments a and
\* answered by the outcomes os
RECURSIVE RequestsFrom(_, _, _)
RequestsFrom(v, step, os) ==
    IF step.req = NoReq THEN <<>>
    ELSE IF os = <<>> THEN <<step.req>>
    ELSE <<step.req>> \o RequestsFrom(v, create_resume(v, step.frame, step.req, Head(os)), Tail(os))

CreateRequests(v, a, os) == RequestsFrom(v, create_start(v, a), os)

----------------------------------------------------------------------------
(* update and delete.                                                      *)

\* variant A: PUT uid/{id}{...params, locale unless "en"}
update_A_start(a) ==
    Await("update.request", a,
          Request("PUT", <<uid, Str(a.id)>>,
                  getQueryString(Spread(a.params, LocaleEntry(DefaultLocale(a.locale)))),
                  Body(a.payload)))

\* update of variant B, appending ?locale= whatever the locale
update_B_start_alwaysLocale(a) ==
    Await("update.request", a,
          Request("PUT", <<uid, Str(a.id)>>,
                  Query(<<<<"locale", Str(DefaultLocale(a.locale))>>>>),
                  Body(a.payload)))

\* variant B: PUT uid/{id} or uid/{id}?locale={locale}; params are not read
update_B_start(a) ==
    Await("update.request", a,
          Request("PUT", <<uid, Str(a.id)>>,
                  IF DefaultLocale(a.locale) = "en" THEN NoQuery
                  ELSE Query(<<<<"locale", Str(DefaultLocale(a.locale))>>>>),
                  Body(a.payload)))

\* if (err) return [err, null]; return [null, response?.data ?? null]
update_return(rr) ==
    IF rr.err # NullV THEN Pair(rr.err, NullV) ELSE Pair(NullV, OptData(rr.data))

\* variant A: DELETE uid/{id}{locale unless "en"}
delete_A_start(a) ==
    Await("delete.request", a,
          Request("DELETE", <<uid, Str(a.id)>>, getQueryString(LocaleEntry(a.locale)), NoBody))

\* delete of variant B, reading the locale as variant A does
delete_B_start_withLocale(a) ==
    Await("delete.request", a,
          Request("DELETE", <<uid, Str(a.id)>>, getQueryString(LocaleEntry(a.locale)), NoBody))

\* variant B: DELETE uid/{id}
delete_B_start(a) ==
    Await("delete.request", a, Request("DELETE", <<uid, Str(a.id)>>, NoQuery, NoBody))

\* if (err) return [err, null]; return [null, response?.data ?? null]
delete_return(rr) ==
    IF rr.err # NullV THEN Pair(rr.err, NullV) ELSE Pair(NullV, OptData(rr.data))

----------------------------------------------------------------------------
(* upsert.                                                                 *)

\* the search params with the page size placed before the caller's params
upsert_searchParams_callerWins(a) ==
    Spread(Spread(Spread(<<<<"pagination", "pageSize=1">>>>, a.params),
                  FiltersEntry(a.filters)),
           LocaleEntry(DefaultLocale(a.locale)))

\* { ...params, ...(filters ? {filters} : {}), pagination: {pageSize: 1},
\*   ...(locale && locale !== "en" ? {locale} : {}) }
upsert_searchParams(a) ==
    Spread(Spread(Spread(a.params, FiltersEntry(a.filters)),
                  <<<<"pagination", "pageSize=1">>>>),
           LocaleEntry(DefaultLocale(a.locale)))

\* upsert(options), up to its first await: findMany(searchParams, locale)
upsert_start(a) ==
    Await("upsert.findMany", a,
          findMany_request(upsert_searchParams(a), DefaultLocale(a.locale)))

\* this.update({ id: existingId, payload, params, locale })
upsert_updateArgs(a, existingId) ==
    Args(existingId, a.payload, a.params, Undef, DefaultLocale(a.locale))

\* the filters are not handed on to create
upsert_createArgs_noFilters(a) ==
    Args(Undef, a.payload, a.params, Undef, DefaultLocale(a.locale))

\* this.create({ payload, params, ...(filters ? {filters} : {}), locale })
upsert_createArgs(a) ==
    Args(Undef, a.payload, a.params, a.filters, DefaultLocale(a.locale))

\* variant A: searchResponse?.[0]?.documentId ?? (searchResponse?.[0]?.documentId as string)
upsert_A_existingId(first) ==
    IF first = NullV THEN Undef ELSE first.documentId

\* variant B: searchResponse?.[0].documentId ?? searchResponse?.[0].id
upsert_B_existingId(first) ==
    IF first.documentId # Undef THEN first.documentId ELSE first.id

\* variant A, after findMany returned
upsert_A_afterSearch(a, pair) ==
    IF pair.err # NullV THEN Return(Pair(pair.err, NullV))
    ELSE IF pair.data # NullV /\ Len(pair.data.items) > 0
    THEN update_A_start(upsert_updateArgs(a, upsert_A_existingId(pair.data.items[1])))
    ELSE create_A_start(upsert_createArgs(a))

\* variant B, after findMany returned
upsert_B_afterSearch(a, pair) ==
    IF pair.err # NullV THEN Return(Pair(pair.err, NullV))
    ELSE IF pair.data # NullV /\ Len(pair.data.items) > 0 /\ pair.data.items[1] # NullV
    THEN update_B_start(upsert_updateArgs(a, upsert_B_existingId(pair.data.items[1])))
    ELSE create_B_start(upsert_createArgs(a))

----------------------------------------------------------------------------
(* request called on its own, with headers for that one request.           *)

\* the arguments of a direct call: no method argument but the headers
RequestArgs(hdrs) ==
    [id |-> Undef, payload |-> Undef, params |-> <<>>, filters |-> Undef, locale |-> Undef,
     headers |-> hdrs]

\* client["request"](uid, { headers }), up to its await of fetch
request_start(a) ==
    Await("request.direct", a,
          [method |-> Undef, path |-> <<uid>>, query |-> NoQuery, body |-> NoBody,
           headers |-> a.headers])

----------------------------------------------------------------------------
(* A whole invocation.                                                     *)

\* the public method op of variant v, called with arguments a, up to its first await
start(v, op, a) ==
    IF op = "findMany" THEN Await("findMany.request", a, findMany_request(a.params, a.locale))
    ELSE IF op = "find" THEN find_start(a)
    ELSE IF op = "create" THEN create_start(v, a)
    ELSE IF op = "update" THEN (IF v = "A" THEN update_A_start(a) ELSE update_B_start(a))
    ELSE IF op = "delete" THEN (IF v = "A" THEN delete_A_start(a) ELSE delete_B_start(a))
    ELSE IF op = "request" THEN request_start(a)
    ELSE upsert_start(a)

\* the method waiting in frame f for request req, once the transport gave outcome o:
\* its next await or its return
resume(v, f, req, o) ==
    IF f.stage = "findMany.request" THEN Return(findMany_return(request(req, o)))
    ELSE IF f.stage = "find.request" THEN Return(find_return(request(req, o)))
    ELSE IF f.stage = "find.findMany"
    THEN Return(find_afterFindMany(findMany_return(request(req, o))))
    ELSE IF f.stage = "update.request" THEN Return(update_return(request(req, o)))
    ELSE IF f.stage = "delete.request" THEN Return(delete_return(request(req, o)))
    ELSE IF f.stage = "request.direct" THEN Return(request(req, o))
    ELSE IF f.stage = "upsert.findMany"
    THEN IF v = "A" THEN upsert_A_afterSearch(f.a, findMany_return(request(req, o)))
         ELSE upsert_B_afterSearch(f.a, findMany_return(request(req, o)))
    ELSE create_resume(v, f, req, o)

\* the requests a method issues from step on, one after the other, when answered by
\* the outcomes os
RECURSIVE RequestsAfter(_, _, _)
RequestsAfter(v, step, os) ==
    IF step.req = NoReq THEN <<>>
    ELSE IF os = <<>> THEN <<step.req>>
    ELSE <<step.req>> \o RequestsAfter(v, resume(v, step.frame, step.req, Head(os)), Tail(os))

\* the requests of one invocation of op with arguments a
OpRequests(v, op, a, os) == RequestsAfter(v, start(v, op, a), os)

\* what a method returns from step on when answered by the outcomes os (nothing yet
\* when they end before it returns)
RECURSIVE ResultAfter(_, _, _)
ResultAfter(v, step, os) ==
    IF step.req = NoReq THEN step.result
    ELSE IF os = <<>> THEN NoResult
    ELSE ResultAfter(v, resume(v, step.frame, step.req, Head(os)), Tail(os))

\* what one invocation of op with arguments a returns
OpResult(v, op, a, os) == ResultAfter(v, start(v, op, a), os)

----------------------------------------------------------------------------
(* Inputs.                                                                 *)

\* longest data array a scripted collection response carries
MaxItems == 2

Variants == {"A", "B"}
\* the headers handed to a single request: none, one of its own, one that names a default
CustomHeaders ==
    {<<>>, <<<<"X-Custom", "value">>>>, <<<<"Content-Type", "text/plain">>>>}
\* the token option: absent, or the token of the tests
Tokens == {Undef, "test-token"}
Callers == {1, 2}
Locales == {Undef, "en", "fr"}
ParamsSet == {<<>>, <<<<"populate", "*">>>>, <<<<"locale", "de">>>>,
              <<<<"pagination", "pageSize=10">>>>}
FiltersSet == {Undef, "F1"}
Payloads == {"P1"}
Ids == {"#0", "#1", "docA"}
Entities == {Entity("#1", "docA"), Entity("#2", Undef), Entity("#3", "docB")}

RECURSIVE SeqsUpTo(_, _)
SeqsUpTo(S, n) ==
    IF n = 0 THEN {<<>>}
    ELSE SeqsUpTo(S, n - 1) \cup {Append(q, e) : q \in {r \in SeqsUpTo(S, n - 1) : Len(r) = n - 1}, e \in S}

\* what a scripted fetch may do whatever was asked
Failures == {Reject("fetch failed"), Http(404, "Not Found", NoBody),
             Http(500, "Internal Server Error", NoBody), Http(200, "OK", Unparsable)}
\* a body that parses to the JSON value null
NullBody == Http(200, "OK", NullV)
\* scripted answers of a collection endpoint: { data: T[] | null }
CollectionOutcomes ==
    Failures \cup {NullBody, Http(200, "OK", Obj(NullV))}
             \cup {Http(200, "OK", Obj(List(q))) : q \in SeqsUpTo(Entities, MaxItems)}
\* scripted answers of an item endpoint or a write: { data: T | null }, or a JSON null
SingleOutcomes ==
    Failures \cup {NullBody, Http(200, "OK", Obj(NullV))}
             \cup {Http(200, "OK", Obj(e)) : e \in Entities}

CollectionStages == {"findMany.request", "find.findMany", "upsert.findMany", "create.search"}

----------------------------------------------------------------------------
(* The server of the second specification: one store behind the REST       *)
(* endpoints, answering as the test suites script a Strapi server to       *)
(* answer.  An entry is one locale variant of a document.                  *)

\* invocations the callers of the shared server start, in total
MaxCalls == 2

IdPool == <<"#1", "#2", "#3", "#4", "#5", "#6", "#7", "#8">>
DocPool == <<"d1", "d2", "d3", "d4", "d5", "d6", "d7", "d8">>

HasPair(req, key) == \E i \in 1..Len(req.query.pairs) : req.query.pairs[i][1] = key
PairOf(req, key) ==
    req.query.pairs[CHOOSE i \in 1..Len(req.query.pairs) : req.query.pairs[i][1] = key][2]

\* the locale a request addresses: its locale parameter, else the default locale
ReqLocale(req) == IF HasPair(req, "locale") THEN PairOf(req, "locale") ELSE "en"

\* the filters on a unique key: filters[documentId][$eq]=d1 and filters[id][$eq]=1
KeyFilters ==
    {[text |-> "documentId=d1", key |-> "documentId", val |-> DocPool[1]],
     [text |-> "id=1", key |-> "id", val |-> IdPool[1]]}

\* entry e has value kf.val under the key kf filters on
KeyMatches(e, kf) ==
    IF kf.key = "documentId" THEN e.documentId = kf.val ELSE IdPool[e.n] = kf.val

\* filter F1 selects the entries written from payload P1, a filter on a key the entries
\* with that value of the key
Matches(e, req) ==
    HasPair(req, "filters")
    => \/ PairOf(req, "filters") = "F1" /\ e.payload = "P1"
       \/ \E kf \in KeyFilters : PairOf(req, "filters") = kf.text /\ KeyMatches(e, kf)

AsEntity(e) == Entity(IdPool[e.n], e.documentId)

\* the entries of S in the order of their identifiers
RECURSIVE Sorted(_)
Sorted(S) ==
    IF S = {} THEN <<>>
    ELSE LET m == CHOOSE e \in S : \A f \in S : e.n <= f.n
         IN <<AsEntity(m)>> \o Sorted(S \ {m})

\* pagination[pageSize]=1 keeps the first entry
Page(req, q) ==
    IF HasPair(req, "pagination") /\ PairOf(req, "pagination") = "pageSize=1" /\ Len(q) > 1
    THEN <<q[1]>> ELSE q

\* the entries an item endpoint uid/{x} addresses in the request's locale
Addressed(req) ==
    {e \in store : (e.documentId = req.path[2] \/ Str(IdPool[e.n]) = req.path[2])
                    /\ e.locale = ReqLocale(req)}
\* the documents an item endpoint uid/{x} addresses in any locale
Documents(req) == {e.documentId : e \in {f \in store : f.documentId = req.path[2]}}

Same(o) == [o |-> o, store |-> store, nextId |-> nextId]

\* GET uid?...: { data: [...] }
ServerList(req) ==
    Same(Http(200, "OK",
              Obj(List(Page(req, Sorted({e \in store : e.locale = ReqLocale(req) /\ Matches(e, req)}))))))

\* GET uid/{x}: { data: {...} } or 404
ServerGet(req) ==
    IF Addressed(req) = {} THEN Same(Http(404, "Not Found", NoBody))
    ELSE Same(Http(200, "OK", Obj(AsEntity(CHOOSE e \in Addressed(req) : TRUE))))

\* POST uid: a new document in the default locale
ServerCreate(req, by) ==
    IF nextId > Len(IdPool) THEN Same(Http(500, "Internal Server Error", NoBody))
    ELSE LET e == [n |-> nextId, documentId |-> DocPool[nextId], locale |-> "en",
                   payload |-> req.body.payload, by |-> by]
         IN [o |-> Http(201, "Created", Obj(AsEntity(e))),
             store |-> store \cup {e}, nextId |-> nextId + 1]

\* POST or PUT uid/{documentId}?locale=..: writes that locale variant of the document
ServerWrite(req, by) ==
    IF Documents(req) = {} THEN Same(Http(404, "Not Found", NoBody))
    ELSE IF Addressed(req) # {}
    THEN LET old == CHOOSE e \in Addressed(req) : TRUE
             new == [old EXCEPT !.payload = req.body.payload]
         IN [o |-> Http(200, "OK", Obj(AsEntity(new))),
             store |-> (store \ {old}) \cup {new}, nextId |-> nextId]
    ELSE IF nextId > Len(IdPool) THEN Same(Http(500, "Internal Server Error", NoBody))
    ELSE LET e == [n |-> nextId, documentId |-> req.path[2], locale |-> ReqLocale(req),
                   payload |-> req.body.payload, by |-> by]
         IN [o |-> Http(200, "OK", Obj(AsEntity(e))),
             store |-> store \cup {e}, nextId |-> nextId + 1]

\* DELETE uid/{x}: 204 with no body, or 404
ServerDelete(req) ==
    IF Addressed(req) = {} THEN Same(Http(404, "Not Found", NoBody))
    ELSE [o |-> Http(204, "No Content", Unparsable),
          store |-> store \ Addressed(req), nextId |-> nextId]

\* the server's answer to req, issued by an invocation of public method `by`
ServerReply(req, by) ==
    IF Len(req.path) = 1
    THEN IF EffMethod(req) = "GET" THEN ServerList(req) ELSE ServerCreate(req, by)
    ELSE IF EffMethod(req) = "GET" THEN ServerGet(req)
    ELSE IF EffMethod(req) = "DELETE" THEN ServerDelete(req)
    ELSE ServerWrite(req, by)

----------------------------------------------------------------------------
(* State.                                                                  *)

NoCall == [op |-> "none"]
Idle(c) == frame[c].stage \in {"idle", "done"}

\* the scripted transport's answers to caller c's request in flight
MockReplies(c) ==
    {[o |-> o, store |-> store, nextId |-> nextId] :
        o \in IF frame[c].stage \in CollectionStages THEN CollectionOutcomes ELSE SingleOutcomes}

\* the transport's answers to caller c's request in flight, each with the server
\* state it leaves behind
Replies(c) ==
    IF mode = "mock" THEN MockReplies(c)
    ELSE {ServerReply(inflight[c], call[c].op)}

\* who may call: the single test caller, or every caller of a shared server
Active == IF mode = "mock" THEN {1} ELSE Callers

\* the scripted transport serves one invocation of a freshly built client (beforeEach);
\* the callers of a shared server call again and again
CanCall(c) ==
    IF mode = "mock" THEN frame[c].stage = "idle"
    ELSE Idle(c) /\ calls[1] + calls[2] < MaxCalls

\* a public method is called: it runs up to its first await
Begin(c, op, a, step) ==
    /\ c \in Active
    /\ CanCall(c)
    /\ call' = [call EXCEPT ![c] = [op |-> op, a |-> a]]
    /\ frame' = [frame EXCEPT ![c] = step.frame]
    /\ inflight' = [inflight EXCEPT ![c] = step.req]
    /\ reqs' = [reqs EXCEPT ![c] = <<step.req>>]
    /\ outs' = [outs EXCEPT ![c] = <<>>]
    /\ result' = [result EXCEPT ![c] = NoResult]
    /\ calls' = [calls EXCEPT ![c] = IF mode = "mock" THEN @ ELSE @ + 1]
    /\ sent' = [sent EXCEPT ![c] = <<fetchArgs(baseURL, headers, step.req)>>]
    /\ UNCHANGED <<variant, mode, store, nextId, ctor, baseURL, headers, uid>>

\* a resumption that keeps the token out of the stored headers from then on
Take_dropsToken(c, r, step) ==
    /\ outs' = [outs EXCEPT ![c] = Append(@, r.o)]
    /\ frame' = [frame EXCEPT ![c] = step.frame]
    /\ inflight' = [inflight EXCEPT ![c] = step.req]
    /\ reqs' = [reqs EXCEPT ![c] = IF step.req = NoReq THEN @ ELSE Append(@, step.req)]
    /\ result' = [result EXCEPT ![c] = step.result]
    /\ store' = r.store
    /\ nextId' = r.nextId
    /\ sent' = [sent EXCEPT ![c] = IF step.req = NoReq THEN @
                                   ELSE Append(@, fetchArgs(baseURL, headers, step.req))]
    /\ headers' = constructor_headers(Undef)
    /\ UNCHANGED <<variant, mode, call, calls, ctor, baseURL, uid>>

\* the awaited request settles with reply r and the method runs on by `step`
Take(c, r, step) ==
    /\ outs' = [outs EXCEPT ![c] = Append(@, r.o)]
    /\ frame' = [frame EXCEPT ![c] = step.frame]
    /\ inflight' = [inflight EXCEPT ![c] = step.req]
    /\ reqs' = [reqs EXCEPT ![c] = IF step.req = NoReq THEN @ ELSE Append(@, step.req)]
    /\ result' = [result EXCEPT ![c] = step.result]
    /\ store' = r.store
    /\ nextId' = r.nextId
    /\ sent' = [sent EXCEPT ![c] = IF step.req = NoReq THEN @
                                   ELSE Append(@, fetchArgs(baseURL, headers, step.req))]
    /\ UNCHANGED <<variant, mode, call, calls, ctor, baseURL, headers, uid>>

Init ==
    /\ variant \in Variants
    /\ mode = "mock"
    /\ call = [c \in Callers |-> NoCall]
    /\ frame = [c \in Callers |-> [stage |-> "idle"]]
    /\ inflight = [c \in Callers |-> NoReq]
    /\ reqs = [c \in Callers |-> <<>>]
    /\ outs = [c \in Callers |-> <<>>]
    /\ result = [c \in Callers |-> NoResult]
    /\ store = {}
    /\ nextId = 1
    /\ calls = [c \in Callers |-> 0]
    /\ ctor \in [baseURL : {<<Host>>}, uid : {TestUid}, token : Tokens]
    /\ baseURL = constructor_baseURL(ctor.baseURL)
    /\ headers = constructor_headers(ctor.token)
    /\ uid = ctor.uid
    /\ sent = [c \in Callers |-> <<>>]

InitServer ==
    /\ variant \in Variants
    /\ mode = "server"
    /\ call = [c \in Callers |-> NoCall]
    /\ frame = [c \in Callers |-> [stage |-> "idle"]]
    /\ inflight = [c \in Callers |-> NoReq]
    /\ reqs = [c \in Callers |-> <<>>]
    /\ outs = [c \in Callers |-> <<>>]
    /\ result = [c \in Callers |-> NoResult]
    /\ store = {}
    /\ nextId = 1
    /\ calls = [c \in Callers |-> 0]
    /\ ctor \in [baseURL : {<<Host>>}, uid : {TestUid}, token : {"test-token"}]
    /\ baseURL = constructor_baseURL(ctor.baseURL)
    /\ headers = constructor_headers(ctor.token)
    /\ uid = ctor.uid
    /\ sent = [c \in Callers |-> <<>>]

\* the arguments tried: the full sets against the scripted transport, the ones
\* that address the shared record against the server
ParamsIn == IF mode = "mock" THEN ParamsSet ELSE {<<>>}
LocalesIn == IF mode = "mock" THEN Locales ELSE {"en", "fr"}
FiltersIn == IF mode = "mock" THEN FiltersSet ELSE {"F1"}
IdsIn == IF mode = "mock" THEN Ids ELSE {DocPool[1]}
\* find takes its id optionally: absent, the empty string, or one of the ids
FindIdsIn ==
    IdsIn \cup (IF mode = "server" THEN {Undef} \cup {kf.val : kf \in KeyFilters}
                ELSE {Undef, ""})
\* upsert against the server is also given params that name a locale of their own
UpsertParamsIn ==
    ParamsIn \cup (IF mode = "server" THEN {<<<<"locale", "de">>>>} ELSE {})
\* find against the server is also given a filter on a unique key
FindParamsIn ==
    ParamsIn \cup (IF mode = "server" THEN {<<<<"filters", kf.text>>>> : kf \in KeyFilters}
                   ELSE {})

----------------------------------------------------------------------------
(* Actions: the calls.                                                     *)

CallFindMany(c) ==
    \E params \in ParamsIn, locale \in LocalesIn :
        LET a == Args(Undef, Undef, params, Undef, locale) IN
        Begin(c, "findMany", a, Await("findMany.request", a, findMany_request(params, locale)))

CallFind(c) ==
    \E id \in FindIdsIn, params \in FindParamsIn, locale \in LocalesIn :
        LET a == Args(id, Undef, params, Undef, locale) IN
        Begin(c, "find", a, find_start(a))

CallCreate(c) ==
    \E payload \in Payloads, params \in ParamsIn, filters \in FiltersIn, locale \in LocalesIn :
        LET a == Args(Undef, payload, params, filters, locale) IN
        Begin(c, "create", a, create_start(variant, a))

CallUpdate(c) ==
    \E id \in IdsIn, payload \in Payloads, params \in ParamsIn, locale \in LocalesIn :
        LET a == Args(id, payload, params, Undef, locale) IN
        Begin(c, "update", a, IF variant = "A" THEN update_A_start(a) ELSE update_B_start(a))

CallDelete(c) ==
    \E id \in IdsIn, locale \in LocalesIn :
        LET a == Args(id, Undef, <<>>, Undef, locale) IN
        Begin(c, "delete", a, IF variant = "A" THEN delete_A_start(a) ELSE delete_B_start(a))

CallRequest(c) ==
    \E hdrs \in CustomHeaders :
        Begin(c, "request", RequestArgs(hdrs), request_start(RequestArgs(hdrs)))

CallUpsert(c) ==
    \E payload \in Payloads, params \in UpsertParamsIn, filters \in FiltersIn,
       locale \in LocalesIn :
        LET a == Args(Undef, payload, params, filters, locale) IN
        Begin(c, "upsert", a, upsert_start(a))

----------------------------------------------------------------------------
(* Actions: the resumptions after an await.                                *)

\* what request() resolves to for caller c under transport outcome o
Settled(c, o) == request(inflight[c], o)

FindManyReturns(c) ==
    /\ frame[c].stage = "findMany.request"
    /\ \E r \in Replies(c) : Take(c, r, Return(findMany_return(Settled(c, r.o))))

FindReturns(c) ==
    /\ frame[c].stage = "find.request"
    /\ \E r \in Replies(c) : Take(c, r, Return(find_return(Settled(c, r.o))))

FindAfterFindMany(c) ==
    /\ frame[c].stage = "find.findMany"
    /\ \E r \in Replies(c) :
          Take(c, r, Return(find_afterFindMany(findMany_return(Settled(c, r.o)))))

CreateAfterDefault(c) ==
    /\ frame[c].stage = "create.default"
    /\ \E r \in Replies(c) : Take(c, r, create_resume(variant, frame[c], inflight[c], r.o))

CreateAfterSearch(c) ==
    /\ frame[c].stage = "create.search"
    /\ \E r \in Replies(c) : Take(c, r, create_resume(variant, frame[c], inflight[c], r.o))

CreateAfterBase(c) ==
    /\ frame[c].stage = "create.base"
    /\ \E r \in Replies(c) : Take(c, r, create_resume(variant, frame[c], inflight[c], r.o))

CreateAfterLocalized(c) ==
    /\ frame[c].stage = "create.localized"
    /\ \E r \in Replies(c) : Take(c, r, create_resume(variant, frame[c], inflight[c], r.o))

UpdateReturns(c) ==
    /\ frame[c].stage = "update.request"
    /\ \E r \in Replies(c) : Take(c, r, Return(update_return(Settled(c, r.o))))

DeleteReturns(c) ==
    /\ frame[c].stage = "delete.request"
    /\ \E r \in Replies(c) : Take(c, r, Return(delete_return(Settled(c, r.o))))

RequestReturns(c) ==
    /\ frame[c].stage = "request.direct"
    /\ \E r \in Replies(c) : Take(c, r, Return(Settled(c, r.o)))

UpsertAfterSearch(c) ==
    /\ frame[c].stage = "upsert.findMany"
    /\ \E r \in Replies(c) :
          Take(c, r, IF variant = "A"
                     THEN upsert_A_afterSearch(frame[c].a, findMany_return(Settled(c, r.o)))
                     ELSE upsert_B_afterSearch(frame[c].a, findMany_return(Settled(c, r.o))))

Next ==
    \/ \E c \in Callers : CallFindMany(c)
    \/ \E c \in Callers : CallFind(c)
    \/ \E c \in Callers : CallCreate(c)
    \/ \E c \in Callers : CallUpdate(c)
    \/ \E c \in Callers : CallDelete(c)
    \/ \E c \in Callers : CallUpsert(c)
    \/ \E c \in Callers : FindManyReturns(c)
    \/ \E c \in Callers : FindReturns(c)
    \/ \E c \in Callers : FindAfterFindMany(c)
    \/ \E c \in Callers : CreateAfterDefault(c)
    \/ \E c \in Callers : CreateAfterSearch(c)
    \/ \E c \in Callers : CreateAfterBase(c)
    \/ \E c \in Callers : CreateAfterLocalized(c)
    \/ \E c \in Callers : UpdateReturns(c)
    \/ \E c \in Callers : DeleteReturns(c)
    \/ \E c \in Callers : UpsertAfterSearch(c)
    \/ \E c \in Callers : CallRequest(c)
    \/ \E c \in Callers : RequestReturns(c)

Spec == Init /\ [][Next]_vars

\* two callers against one server
SpecServer == InitServer /\ [][Next]_vars

----------------------------------------------------------------------------
(* Construction on its own: a client is built from each base URL tried,    *)
(* and a second client from the base URL the first one stored.             *)

\* longest run of pieces after the origin in a base URL handed to the constructor
MaxUrlLen == 4

UrlPieces == {Slash, ApiSeg, "v1"}

\* the base URLs tried: the origin followed by up to MaxUrlLen pieces
RawUrls == {<<Host>> \o t : t \in SeqsUpTo(UrlPieces, MaxUrlLen)}

InitUrl ==
    /\ variant \in Variants
    /\ mode = "ctor"
    /\ call = [c \in Callers |-> NoCall]
    /\ frame = [c \in Callers |-> [stage |-> "idle"]]
    /\ inflight = [c \in Callers |-> NoReq]
    /\ reqs = [c \in Callers |-> <<>>]
    /\ outs = [c \in Callers |-> <<>>]
    /\ result = [c \in Callers |-> NoResult]
    /\ store = {}
    /\ nextId = 1
    /\ calls = [c \in Callers |-> 0]
    /\ ctor \in [baseURL : RawUrls, uid : {TestUid}, token : Tokens]
    /\ baseURL = <<>>
    /\ headers = <<>>
    /\ uid = ""
    /\ sent = [c \in Callers |-> <<>>]

\* new StrapiClient({ baseURL, uid, token })
Construct ==
    /\ baseURL = <<>>
    /\ baseURL' = constructor_baseURL(ctor.baseURL)
    /\ headers' = constructor_headers(ctor.token)
    /\ uid' = ctor.uid
    /\ UNCHANGED <<variant, mode, call, frame, inflight, reqs, outs, result, store, nextId,
                   calls, ctor, sent>>

\* new StrapiClient({ baseURL: the base URL a client stored, uid, token })
Rebuild ==
    /\ baseURL # <<>>
    /\ ctor' = [ctor EXCEPT !.baseURL = baseURL]
    /\ baseURL' = constructor_baseURL(baseURL)
    /\ headers' = constructor_headers(ctor.token)
    /\ uid' = ctor.uid
    /\ UNCHANGED <<variant, mode, call, frame, inflight, reqs, outs, result, store, nextId,
                   calls, sent>>

NextUrl == Construct \/ Rebuild

SpecUrl == InitUrl /\ [][NextUrl]_vars

----------------------------------------------------------------------------
(* Vocabulary of the properties.                                           *)

Done(c) == frame[c].stage = "done"
Op(c) == call[c].op

\* the i-th request of caller c's invocation ended in an error of request()
StepFailed(c, i) ==
    \/ outs[c][i].t = "reject"
    \/ ~Ok(outs[c][i])
    \/ outs[c][i].body.k = "unparsable" /\ EffMethod(reqs[c][i]) # "DELETE"

AllSucceeded(c) == \A i \in 1..Len(outs[c]) : ~StepFailed(c, i)

\* a non-default locale was asked for
NonDefault(c) == DefaultLocale(call[c].a.locale) # "en"

IsCollection(r) == Len(r.path) = 1
IsItem(r) == Len(r.path) = 2
\* a POST to the collection endpoint
IsCollectionPost(r) == r.method = "POST" /\ IsCollection(r)

\* the records of a successful collection response (none when data is null)
Records(o) ==
    IF o.body = NullV \/ o.body.data = NullV THEN <<>> ELSE o.body.data.items

HasDoc(e) == e # NullV /\ Truthy(e.documentId)

\* a successful write response that carries a record
CarriesRecord(o) == o.body # NullV /\ o.body.data # NullV

\* caller c ran create in a non-default locale and its discovery search succeeded
Discovered(c) ==
    Op(c) = "create" /\ NonDefault(c) /\ Len(outs[c]) >= 1 /\ ~StepFailed(c, 1)

----------------------------------------------------------------------------
(* C1: whenever a public operation returns a non-null error, the data it   *)
(* returns with it is null.                                                *)
C1_ErrorExcludesData ==
    \A c \in Callers :
        (result[c].k = "pair" /\ result[c].err # NullV) => result[c].data = NullV

\* an error came back from the third request of an upsert
C1_Witness ==
    /\ Op(1) = "upsert" /\ Done(1) /\ Len(reqs[1]) = 3
    /\ result[1].k = "pair" /\ result[1].err # NullV

(* C2: no public operation ever rejects its promise; each completes by     *)
(* returning an [error, data] pair.                                        *)
C2_NeverThrows ==
    \A c \in Callers : Done(c) => result[c].k = "pair"

(* C3: in create with a non-default locale, when no base was discovered    *)
(* and the base-creation POST fails or yields a record without documentId, *)
(* create returns a non-null error with null data and issues no localized  *)
(* write.                                                                  *)
C3_BaseFailureIsError ==
    \A c \in Callers :
        (/\ Discovered(c) /\ Len(outs[c]) >= 2 /\ IsCollectionPost(reqs[c][2])
         /\ \/ StepFailed(c, 2)
            \/ CarriesRecord(outs[c][2]) /\ ~HasDoc(outs[c][2].body.data))
        => /\ Done(c) /\ Len(reqs[c]) = 2
           /\ result[c].k = "pair" /\ result[c].err # NullV /\ result[c].data = NullV

(* C4: once a transport step yields an error no further request is made    *)
(* and the operation returns exactly that error with null data; a first    *)
(* response with a non-2xx status means one transport call and an error    *)
(* message that contains the status code.                                  *)
C4_FirstErrorEnds ==
    \A c \in Callers :
        /\ \A i \in 1..Len(outs[c]) :
              StepFailed(c, i) =>
                /\ i = Len(outs[c]) /\ Len(reqs[c]) = i /\ Done(c)
                /\ result[c] = Pair(request(reqs[c][i], outs[c][i]).err, NullV)
        /\ (Len(outs[c]) >= 1 /\ outs[c][1].t = "resp" /\ ~Ok(outs[c][1])) =>
              /\ Len(reqs[c]) = 1
              /\ result[c].k = "pair" /\ result[c].data = NullV
              /\ result[c].err.status = outs[c][1].status
              /\ \E j \in 1..Len(result[c].err.message) :
                    result[c].err.message[j] = ToString(outs[c][1].status)

\* the localized write of an upsert-driven create failed with a status
C4_Witness ==
    /\ Op(1) = "upsert" /\ Len(outs[1]) = 4 /\ StepFailed(1, 4)
    /\ outs[1][4].t = "resp" /\ outs[1][4].status = 500
    /\ result[1].k = "pair"

\* every response so far is a success; collection responses hold only records with
\* a documentId and every write response carries a record with a documentId
AllOkWithDoc(c) ==
    /\ AllSucceeded(c)
    /\ \A i \in 1..Len(outs[c]) :
          IF EffMethod(reqs[c][i]) = "GET" /\ IsCollection(reqs[c][i])
          THEN \A j \in 1..Len(Records(outs[c][i])) : HasDoc(Records(outs[c][i])[j])
          ELSE CarriesRecord(outs[c][i]) /\ HasDoc(outs[c][i].body.data)

(* C5: with every request succeeding and every returned record carrying a  *)
(* documentId, create issues one request (a POST to the collection) for    *)
(* the default locale, two for a non-default locale when discovery returns *)
(* a base record, three when discovery returns none.                       *)
C5_CreateRequestCount ==
    \A c \in Callers :
        (Op(c) = "create" /\ Done(c) /\ AllOkWithDoc(c)) =>
            IF ~NonDefault(c)
            THEN Len(reqs[c]) = 1 /\ IsCollectionPost(reqs[c][1])
            ELSE IF Len(Records(outs[c][1])) > 0
            THEN Len(reqs[c]) = 2
            ELSE Len(reqs[c]) = 3

\* a create that found a base record and wrote the localization
C5_Witness ==
    /\ Op(1) = "create" /\ Done(1) /\ AllOkWithDoc(1) /\ NonDefault(1)
    /\ Len(Records(outs[1][1])) > 0 /\ Len(reqs[1]) = 2

(* C6: when all requests succeed, upsert issues one search GET to the      *)
(* collection and then either exactly one update PUT (the search returned  *)
(* a record) or exactly the requests create issues for the same payload,   *)
(* params, filters and locale (the search returned none).                  *)
C6_UpsertRequests ==
    \A c \in Callers :
        (Op(c) = "upsert" /\ Done(c) /\ AllSucceeded(c)) =>
            /\ reqs[c][1].method = "GET" /\ IsCollection(reqs[c][1])
            /\ IF Len(Records(outs[c][1])) > 0
               THEN Len(reqs[c]) = 2 /\ reqs[c][2].method = "PUT" /\ IsItem(reqs[c][2])
               ELSE Tail(reqs[c]) = CreateRequests(variant, call[c].a, Tail(outs[c]))

\* an upsert that found nothing and went through all three requests of create
C6_Witness ==
    /\ Op(1) = "upsert" /\ Done(1) /\ AllSucceeded(1)
    /\ Len(Records(outs[1][1])) = 0 /\ Len(reqs[1]) = 4
    /\ call[1].a.filters = "F1"

(* C7: when upsert's search finds a record, the update targets the item    *)
(* endpoint of the record's documentId when it has one and of its plain id *)
(* when it has none; the target is never an undefined identifier.          *)
C7_UpsertTarget ==
    \A c \in Callers :
        (Op(c) = "upsert" /\ Len(outs[c]) >= 1 /\ ~StepFailed(c, 1)
         /\ Len(Records(outs[c][1])) > 0)
        => /\ Len(reqs[c]) >= 2 /\ IsItem(reqs[c][2])
           /\ reqs[c][2].path[2] =
                 Str(IF Records(outs[c][1])[1].documentId # Undef
                     THEN Records(outs[c][1])[1].documentId
                     ELSE Records(outs[c][1])[1].id)
           /\ reqs[c][2].path[2] # Str(Undef)

(* C8: upsert is an atomic create-or-update: callers that run upsert       *)
(* concurrently with the same filters against a server holding no match    *)
(* create at most one record matching the filters.                         *)
C8_UpsertNoDuplicate ==
    Cardinality({e \in store : e.by = "upsert" /\ e.locale = "en" /\ e.payload = "P1"}) <= 1

(* C9 as claimed: whenever the discovery response holds a record with a    *)
(* documentId at any position, create uses an existing record as base and  *)
(* issues no base-creation POST.                                           *)
C9_AnyPositionMatches ==
    \A c \in Callers :
        (Discovered(c) /\ \E j \in 1..Len(Records(outs[c][1])) : HasDoc(Records(outs[c][1])[j]))
        => /\ Len(reqs[c]) >= 2 /\ IsItem(reqs[c][2])
           /\ \A i \in 1..Len(reqs[c]) : ~IsCollectionPost(reqs[c][i])

(* C9 as amended: the match is the first returned record when it carries a *)
(* documentId: then create writes the localization to that documentId and  *)
(* issues no base-creation POST; when the first record carries none, the   *)
(* base-creation POST is issued whatever the later records carry.          *)
C9_FirstRecordMatches ==
    \A c \in Callers :
        Discovered(c) =>
            IF Len(Records(outs[c][1])) > 0 /\ HasDoc(Records(outs[c][1])[1])
            THEN /\ Len(reqs[c]) >= 2 /\ IsItem(reqs[c][2])
                 /\ reqs[c][2].path[2] = Records(outs[c][1])[1].documentId
                 /\ \A i \in 1..Len(reqs[c]) : ~IsCollectionPost(reqs[c][i])
            ELSE Len(reqs[c]) >= 2 /\ IsCollectionPost(reqs[c][2])

\* the base was taken from the first of two records
C9_Witness ==
    /\ Discovered(1) /\ Done(1) /\ Len(Records(outs[1][1])) = 2
    /\ HasDoc(Records(outs[1][1])[1]) /\ Len(reqs[1]) = 2

\* the base record of caller c's create: the one discovered, else the one created
BaseRecord(c) ==
    IF Len(reqs[c]) = 2 THEN Records(outs[c][1])[1] ELSE outs[c][2].body.data

----------------------------------------------------------------------------
\* caller c's create in a non-default locale returned after its localized write
LocalizedDone(c) ==
    /\ Op(c) = "create" /\ NonDefault(c) /\ Done(c)
    /\ Len(reqs[c]) \in {2, 3} /\ IsItem(reqs[c][Len(reqs[c])])

\* the outcome of the last request of caller c's invocation
LastOut(c) == outs[c][Len(outs[c])]

\* the error request() gives for the last request of caller c's invocation
LastErr(c) == request(reqs[c][Len(reqs[c])], LastOut(c)).err

----------------------------------------------------------------------------
\* text t is one of the parts of message m
Contains(m, t) == \E k \in 1..Len(m) : m[k] = t

\* what request() made of the i-th request of caller c's invocation
Classified(c, i) == request(reqs[c][i], outs[c][i])

(* C12: request classifies every outcome into one error kind or success: a *)
(* transport failure gives an error with the failure's message and no      *)
(* status; a response outside the success range gives an error with the    *)
(* response's status whose message contains the status and the status      *)
(* text; a success-status response whose body cannot be parsed, on a       *)
(* non-DELETE request, gives an error with the response's status; a        *)
(* success-status response with a parsable body gives the parsed payload   *)
(* with a null error.                                                      *)
C12_RequestClassifies ==
    \A c \in Callers : \A i \in 1..Len(outs[c]) :
        LET o == outs[c][i]
            rr == Classified(c, i)
        IN  /\ rr.err # NullV
               <=> \/ o.t = "reject"
                   \/ o.t = "resp" /\ ~(o.status \in 200..299)
                   \/ o.t = "resp" /\ o.body.k = "unparsable" /\ reqs[c][i].method # "DELETE"
            /\ o.t = "reject"
               => /\ rr.err # NullV /\ rr.data = NullV
                  /\ "status" \notin DOMAIN rr.err
                  /\ Contains(rr.err.message, o.msg)
            /\ (o.t = "resp" /\ ~(o.status \in 200..299))
               => /\ rr.err # NullV /\ rr.data = NullV
                  /\ rr.err.status = o.status
                  /\ Contains(rr.err.message, ToString(o.status))
                  /\ Contains(rr.err.message, o.statusText)
            /\ (o.t = "resp" /\ o.status \in 200..299 /\ o.body.k = "unparsable"
                  /\ reqs[c][i].method # "DELETE")
               => /\ rr.err # NullV /\ rr.data = NullV
                  /\ "status" \in DOMAIN rr.err /\ rr.err.status = o.status
            /\ (o.t = "resp" /\ o.status \in 200..299 /\ o.body.k # "unparsable")
               => rr.err = NullV /\ rr.data = o.body

\* a POST or PUT was answered with a success status and a body that does not parse
C12_Witness ==
    \E i \in 1..Len(outs[1]) :
        /\ reqs[1][i].method \in {"POST", "PUT"}
        /\ outs[1][i].t = "resp" /\ outs[1][i].status = 200
        /\ outs[1][i].body.k = "unparsable"
        /\ Classified(1, i).err.status = 200

----------------------------------------------------------------------------
\* the i-th response of caller c's invocation has a success status and a body that
\* does not parse
Garbled(c, i) ==
    outs[c][i].t = "resp" /\ Ok(outs[c][i]) /\ outs[c][i].body.k = "unparsable"

(* C13: a delete whose success-status response body fails to parse returns *)
(* [null, null], not an error; the suppression is for DELETE requests      *)
(* only: findMany, find, create, update and upsert return a parse error    *)
(* that carries the response's status.                                     *)
C13_DeleteParseFallback ==
    \A c \in Callers :
        (Done(c) /\ \E i \in 1..Len(outs[c]) : Garbled(c, i))
        => IF Op(c) = "delete"
           THEN result[c] = Pair(NullV, NullV)
           ELSE /\ Garbled(c, Len(outs[c]))
                /\ result[c].k = "pair" /\ result[c].data = NullV
                /\ result[c].err # NullV
                /\ "status" \in DOMAIN result[c].err
                /\ result[c].err.status = LastOut(c).status
                /\ Contains(result[c].err.message,
                            "Strapi API error: Failed to parse JSON response -")

\* a delete returned after a success-status response whose body does not parse
C13_Witness ==
    Op(1) = "delete" /\ Done(1) /\ Garbled(1, 1) /\ result[1] = Pair(NullV, NullV)

----------------------------------------------------------------------------
(* C14: for every successful collection response, findMany returns         *)
(* [null, d], d being exactly the response's data array (same elements,    *)
(* same order); when the data field is null it returns [null, empty        *)
(* sequence], never null data with a null error and never an error.        *)
C14_FindManyData ==
    \A c \in Callers :
        (Op(c) = "findMany" /\ Done(c) /\ ~StepFailed(c, 1))
        => /\ result[c].k = "pair" /\ result[c].err = NullV
           /\ result[c].data # NullV /\ result[c].data.k = "list"
           /\ IF outs[c][1].body = NullV \/ outs[c][1].body.data = NullV
              THEN result[c].data.items = <<>>
              ELSE result[c].data.items = outs[c][1].body.data.items

\* findMany returned a data array of two records
C14_Witness ==
    /\ Op(1) = "findMany" /\ Done(1) /\ ~StepFailed(1, 1)
    /\ CarriesRecord(outs[1][1]) /\ Len(outs[1][1].body.data.items) = 2
    /\ Len(result[1].data.items) = 2

\* findMany returned an empty sequence for a response whose data field is null
C14_WitnessNull ==
    /\ Op(1) = "findMany" /\ Done(1) /\ ~StepFailed(1, 1)
    /\ outs[1][1].body # NullV /\ outs[1][1].body.data = NullV
    /\ result[1] = Pair(NullV, List(<<>>))

----------------------------------------------------------------------------
(* C15: for every identifier value supplied to find, 0 and the empty       *)
(* string included, find issues exactly one GET to the item endpoint       *)
(* uid/{id} and no request to the collection endpoint, and returns         *)
(* [null, the record], [null, null] when the record is absent, or the      *)
(* request's error unchanged.                                              *)
C15_FindByIdItemEndpoint ==
    \A c \in Callers :
        (Op(c) = "find" /\ call[c].a.id # Undef)
        => /\ Len(reqs[c]) = 1
           /\ EffMethod(reqs[c][1]) = "GET"
           /\ reqs[c][1].path = <<uid, Str(call[c].a.id)>>
           /\ Done(c)
              => result[c] = IF StepFailed(c, 1)
                             THEN Pair(Classified(c, 1).err, NullV)
                             ELSE Pair(NullV, OptData(outs[c][1].body))

----------------------------------------------------------------------------
\* the one request a findMany call with these params and this locale is seen to issue:
\* a GET to the collection endpoint whose query is the params followed by the locale
\* when it is not the default
IsFindManyRequest(r, params, locale) ==
    /\ EffMethod(r) = "GET" /\ r.path = <<uid>> /\ r.body = NoBody
    /\ r.query = getQueryString(Spread(params, IF locale \in {Undef, "en"}
                                               THEN <<>>
                                               ELSE <<<<"locale", locale>>>>))

(* C16: find without an identifier issues exactly the one request that     *)
(* findMany(params, locale) issues for the same params and locale, and     *)
(* returns [null, first element of the result sequence], [null, null]      *)
(* when the sequence is empty, or findMany's error unchanged.              *)
C16_FindDelegates ==
    /\ \A c \in Callers :
          (Op(c) = "findMany")
          => IsFindManyRequest(reqs[c][1], call[c].a.params, call[c].a.locale)
    /\ \A c \in Callers :
          (Op(c) = "find" /\ call[c].a.id = Undef)
          => /\ Len(reqs[c]) = 1
             /\ IsFindManyRequest(reqs[c][1], call[c].a.params, call[c].a.locale)
             /\ Done(c)
                => result[c] = IF StepFailed(c, 1)
                               THEN Pair(Classified(c, 1).err, NullV)
                               ELSE IF Len(Records(outs[c][1])) = 0
                               THEN Pair(NullV, NullV)
                               ELSE Pair(NullV, Records(outs[c][1])[1])

\* find without an identifier, in a non-default locale, returned the first of two records
C16_Witness ==
    /\ Op(1) = "find" /\ call[1].a.id = Undef /\ NonDefault(1) /\ Done(1)
    /\ ~StepFailed(1, 1) /\ Len(Records(outs[1][1])) = 2
    /\ result[1] = Pair(NullV, Records(outs[1][1])[1])

----------------------------------------------------------------------------
\* caller c's call leaves the locale out or gives "en", and its params carry no locale
DefaultCall(c) ==
    /\ Op(c) # "none"
    /\ call[c].a.locale \in {Undef, "en"}
    /\ ~Has(call[c].a.params, "locale")

\* the arguments of caller c's call with the locale replaced
WithLocale(c, locale) == [call[c].a EXCEPT !.locale = locale]

(* C17: for every operation and every other argument value, when params    *)
(* carries no locale field, the call with the locale omitted and the call  *)
(* with locale "en" produce the same request sequence (URLs, methods and   *)
(* bodies) given the same responses, and no URL of those requests has a    *)
(* locale= parameter.                                                      *)
C17_DefaultLocaleSameRequests ==
    \A c \in Callers :
        DefaultCall(c)
        => /\ \A i \in 1..Len(reqs[c]) : ~HasPair(reqs[c][i], "locale")
           /\ reqs[c] = OpRequests(variant, Op(c), call[c].a, outs[c])
           /\ OpRequests(variant, Op(c), WithLocale(c, Undef), outs[c])
                = OpRequests(variant, Op(c), WithLocale(c, "en"), outs[c])

\* an upsert called with locale "en" went through its search and its write
C17_Witness ==
    /\ DefaultCall(1) /\ Op(1) = "upsert" /\ call[1].a.locale = "en"
    /\ Done(1) /\ Len(reqs[1]) = 2
    /\ reqs[1] = OpRequests(variant, "upsert", WithLocale(1, Undef), outs[1])

----------------------------------------------------------------------------
(* C18: every invocation of every public operation, for every argument and *)
(* every sequence of transport outcomes, performs at most three network    *)
(* round-trips.                                                            *)
C18_AtMostThree ==
    \A c \in Callers : Len(reqs[c]) <= 3

(* C18, amended: an invocation performs at most four round-trips; only an  *)
(* upsert performs four, and it performs more than two only in a           *)
(* non-default locale; create performs at most three; findMany, find,      *)
(* update and delete perform one.                                          *)
C18_RoundTrips ==
    \A c \in Callers :
        /\ Len(reqs[c]) <= 4
        /\ Op(c) = "create" => Len(reqs[c]) <= 3
        /\ Op(c) \in {"findMany", "find", "update", "delete"} => Len(reqs[c]) = 1
        /\ (Op(c) = "upsert" /\ Len(reqs[c]) > 2) => NonDefault(c)

\* an upsert in a non-default locale searched, discovered no base, created one and
\* wrote the localized record
C18_Witness ==
    /\ Op(1) = "upsert" /\ Done(1) /\ Len(reqs[1]) = 4 /\ AllSucceeded(1)
    /\ IsCollectionPost(reqs[1][3]) /\ IsItem(reqs[1][4])

----------------------------------------------------------------------------
\* the query of request r carries locale={locale}
CarriesLocale(r, locale) ==
    \E j \in 1..Len(r.query.pairs) : r.query.pairs[j] = <<"locale", locale>>

\* a locale is supplied and differs from "en"
LocaleGiven(locale) == locale # Undef /\ locale # "en"

\* what a single-request method returns: the record of the response, null when the
\* response carries none, or the error of the request
SingleResult(c) ==
    IF StepFailed(c, 1) THEN Pair(Classified(c, 1).err, NullV)
    ELSE IF Garbled(c, 1) THEN Pair(NullV, NullV)
    ELSE IF CarriesRecord(outs[c][1]) THEN Pair(NullV, outs[c][1].body.data)
    ELSE Pair(NullV, NullV)

(* C19: update issues exactly one request, a PUT to the item endpoint      *)
(* uid/{id} whose body is the JSON payload; the URL carries                *)
(* locale={locale} if and only if a locale is supplied and differs from    *)
(* "en"; it returns [null, the updated record], [null, null] when the      *)
(* response carries no record, or the request's error unchanged.           *)
C19_UpdateRequest ==
    \A c \in Callers :
        Op(c) = "update"
        => /\ Len(reqs[c]) = 1
           /\ reqs[c][1].method = "PUT"
           /\ reqs[c][1].path = <<uid, Str(call[c].a.id)>>
           /\ reqs[c][1].body = [k |-> "json", payload |-> call[c].a.payload,
                                 dataLocale |-> Undef]
           /\ CarriesLocale(reqs[c][1], call[c].a.locale) <=> LocaleGiven(call[c].a.locale)
           /\ Done(c) => result[c] = SingleResult(c)

\* an update in locale "fr" returned the updated record
C19_Witness ==
    /\ Op(1) = "update" /\ call[1].a.locale = "fr" /\ Done(1)
    /\ CarriesLocale(reqs[1][1], "fr")
    /\ ~StepFailed(1, 1) /\ ~Garbled(1, 1)
    /\ CarriesRecord(outs[1][1]) /\ result[1] = Pair(NullV, outs[1][1].body.data)

(* C20: delete issues exactly one request, a DELETE to the item endpoint   *)
(* uid/{id}, and returns [null, the deleted record] or [null, null] when   *)
(* the server supplied none; in variant A the URL carries locale={locale}  *)
(* if and only if a locale is supplied and differs from "en", in variant B *)
(* the URL never carries a query string whatever locale is passed.         *)
C20_DeleteRequest ==
    \A c \in Callers :
        Op(c) = "delete"
        => /\ Len(reqs[c]) = 1
           /\ reqs[c][1].method = "DELETE"
           /\ reqs[c][1].path = <<uid, Str(call[c].a.id)>>
           /\ reqs[c][1].body = NoBody
           /\ IF variant = "A"
              THEN /\ CarriesLocale(reqs[c][1], call[c].a.locale)
                        <=> LocaleGiven(call[c].a.locale)
                   /\ ~LocaleGiven(call[c].a.locale) => reqs[c][1].query = NoQuery
              ELSE reqs[c][1].query = NoQuery
           /\ Done(c) => result[c] = SingleResult(c)

\* a delete of variant B, called with locale "fr", returned the deleted record
C20_Witness ==
    /\ variant = "B" /\ Op(1) = "delete" /\ call[1].a.locale = "fr" /\ Done(1)
    /\ reqs[1][1].query = NoQuery
    /\ ~StepFailed(1, 1) /\ ~Garbled(1, 1)
    /\ CarriesRecord(outs[1][1]) /\ result[1] = Pair(NullV, outs[1][1].body.data)

----------------------------------------------------------------------------
\* a client has been constructed
Constructed == baseURL # <<>>

\* how many "/api" the URL ends with, one after the other
RECURSIVE ApiSuffixes(_)
ApiSuffixes(url) ==
    IF endsWithApi(url) THEN 1 + ApiSuffixes(SubSeq(url, 1, Len(url) - 2)) ELSE 0

\* the four base URLs of the constructor tests
ExampleUrls ==
    {<<Host>>, <<Host, Slash>>, <<Host, Slash, Slash, Slash>>, <<Host, Slash, ApiSeg>>}

(* C21: the constructor strips all trailing slashes and appends "/api"     *)
(* only when the stripped URL does not already end with "/api": the stored *)
(* base always ends with exactly one "/api" segment and no trailing slash, *)
(* the four example URLs all give origin + "/api", and normalizing a       *)
(* normalized base returns it unchanged.                                   *)
C21_ExactlyOneApi ==
    Constructed
    => /\ ApiSuffixes(baseURL) = 1
       /\ baseURL[Len(baseURL)] # Slash
       /\ ctor.baseURL \in ExampleUrls => baseURL = <<Host, Slash, ApiSeg>>
       /\ ApiSuffixes(ctor.baseURL) = 1 => baseURL = ctor.baseURL

(* C21, amended: the stored base is the given URL without its trailing     *)
(* slashes, followed by "/api" only when that stripped URL does not end    *)
(* with "/api"; so it ends with "/api", has no trailing slash, and ends    *)
(* with one more "/api" than the stripped URL only when the stripped URL   *)
(* ended with none; the four example URLs give origin + "/api"; and a      *)
(* base that is already a stored base is returned unchanged.               *)
C21_Normalization ==
    Constructed
    => /\ ApiSuffixes(baseURL) >= 1
       /\ baseURL[Len(baseURL)] # Slash
       /\ ApiSuffixes(baseURL)
            = IF ApiSuffixes(stripTrailingSlashes(ctor.baseURL)) = 0 THEN 1
              ELSE ApiSuffixes(stripTrailingSlashes(ctor.baseURL))
       /\ ctor.baseURL \in ExampleUrls => baseURL = <<Host, Slash, ApiSeg>>
       /\ (ApiSuffixes(ctor.baseURL) >= 1) => baseURL = ctor.baseURL

\* a client built from a base URL that already ends with "/api" stored it as given
C21_Witness ==
    /\ Constructed /\ ctor.baseURL = <<Host, Slash, ApiSeg>> /\ baseURL = ctor.baseURL
    /\ mode = "ctor"

----------------------------------------------------------------------------
\* header set h has header key with value val
HasHeader(h, key, val) == \E j \in 1..Len(h) : h[j] = <<key, val>>

\* the headers handed to the i-th request of caller c's invocation
Custom(c, i) == OptHeaders(reqs[c][i])

(* C22: every request issued by any operation, at any step of a multi-step *)
(* workflow, carries Content-Type: application/json, and carries           *)
(* Authorization: Bearer {token} if and only if a token was supplied at    *)
(* construction; headers passed for a single request are merged over these *)
(* defaults without removing them.                                         *)
C22_Headers ==
    \A c \in Callers :
        /\ Len(sent[c]) = Len(reqs[c])
        /\ \A i \in 1..Len(sent[c]) :
              LET h == sent[c][i].headers IN
              /\ Op(c) # "request"
                 => /\ HasHeader(h, "Content-Type", "application/json")
                    /\ Has(h, "Authorization") <=> ctor.token # Undef
                    /\ Len(h) = IF ctor.token # Undef THEN 2 ELSE 1
              /\ ctor.token # Undef => HasHeader(h, "Authorization", BearerText[ctor.token])
              /\ \A j \in 1..Len(Custom(c, i)) :
                    HasHeader(h, Custom(c, i)[j][1], Custom(c, i)[j][2])
              /\ Has(h, "Content-Type")
              /\ ~Has(Custom(c, i), "Content-Type")
                    => HasHeader(h, "Content-Type", "application/json")

\* the localized write of a create, third request of its invocation, went out with the
\* token of the client
C22_Witness ==
    /\ Op(1) = "create" /\ Len(sent[1]) = 3 /\ ctor.token = "test-token"
    /\ HasHeader(sent[1][3].headers, "Authorization", "Bearer test-token")
    /\ HasHeader(sent[1][3].headers, "Content-Type", "application/json")

\* a request made with a header of its own went out with that header and the defaults
C22_WitnessMerged ==
    /\ Op(1) = "request" /\ Len(sent[1]) = 1
    /\ HasHeader(sent[1][1].headers, "X-Custom", "value")
    /\ HasHeader(sent[1][1].headers, "Content-Type", "application/json")

----------------------------------------------------------------------------
\* the locale caller c's call addresses
CallLocale(c) == DefaultLocale(call[c].a.locale)

\* the stored records of locale loc whose key has the value kf filters on
Holding(kf, loc) == {e \in store : e.locale = loc /\ KeyMatches(e, kf)}

\* find({ id: X, locale }) and find({ params: { filters: { key: X } }, locale })
FindById(kf, locale) == Args(kf.val, Undef, <<>>, Undef, locale)
FindByFilter(kf, locale) == Args(Undef, Undef, <<<<"filters", kf.text>>>>, Undef, locale)

\* what find with arguments a returns against the records the server holds now
FindNow(a) ==
    OpResult(variant, "find", a, <<ServerReply(start(variant, "find", a).req, "find").o>>)

(* C23: against a server holding records of which exactly one matches a    *)
(* filter on a unique key with value X, that record's identifier being X,  *)
(* find({id: X}) and find({params: {filters: {key: X}}}) both return that  *)
(* record with a null error.                                               *)
C23_FindByIdOrFilter ==
    \A c \in Callers : \A kf \in KeyFilters :
        (/\ Op(c) = "find" /\ Done(c)
         /\ call[c].a \in {FindById(kf, call[c].a.locale), FindByFilter(kf, call[c].a.locale)}
         /\ Cardinality(Holding(kf, CallLocale(c))) = 1
         /\ ServerReply(reqs[c][1], "find").o = outs[c][1])
        => LET e == CHOOSE f \in Holding(kf, CallLocale(c)) : TRUE IN
           /\ result[c] = Pair(NullV, AsEntity(e))
           /\ FindNow(FindById(kf, call[c].a.locale)) = Pair(NullV, AsEntity(e))
           /\ FindNow(FindByFilter(kf, call[c].a.locale)) = Pair(NullV, AsEntity(e))

\* a find by a filter on the unique key returned the one record of locale "fr" that
\* find by id returns, the server holding a record of the same document in "en" as well
C23_Witness ==
    \E kf \in KeyFilters :
        /\ Op(2) = "find" /\ Done(2) /\ call[2].a = FindByFilter(kf, "fr")
        /\ Cardinality(Holding(kf, "fr")) = 1 /\ Cardinality(store) = 2
        /\ result[2].k = "pair" /\ result[2].err = NullV /\ result[2].data # NullV
        /\ result[2] = FindNow(FindById(kf, "fr"))

----------------------------------------------------------------------------
\* caller c runs create in a non-default locale and its discovery search found no base
FoundNoBase(c) ==
    /\ Op(c) = "create" /\ NonDefault(c)
    /\ Len(outs[c]) >= 1 /\ ~StepFailed(c, 1) /\ Len(Records(outs[c][1])) = 0

\* the base records the server holds for the payload the callers write
BaseRecords == {e \in store : e.locale = "en" /\ e.payload = "P1"}

\* the record the server returned to caller c's base-creation POST
CreatedBase(c) == outs[c][2].body.data

(* C24: the client does not keep concurrent callers to one base record per *)
(* filter match: when two callers run create with a non-default locale and *)
(* the same filters against a server holding no matching base, and both    *)
(* discovery searches find none, both callers issue the base-creation POST *)
(* and two base records are created, one by each POST.                     *)
C24_RacingCreates ==
    (/\ FoundNoBase(1) /\ FoundNoBase(2)
     /\ call[1].a.filters = call[2].a.filters)
    => /\ \A c \in Callers : Len(reqs[c]) >= 2 /\ IsCollectionPost(reqs[c][2])
       /\ (\A c \in Callers : Len(outs[c]) >= 2 /\ ~StepFailed(c, 2))
          => /\ \A c \in Callers : HasDoc(CreatedBase(c))
             /\ CreatedBase(1).documentId # CreatedBase(2).documentId

\* both searches were answered before either POST went out, both POSTs created a base,
\* and the server holds the two of them
C24_Witness ==
    /\ FoundNoBase(1) /\ FoundNoBase(2) /\ call[1].a.filters = call[2].a.filters
    /\ call[1].a.filters = "F1"
    /\ \A c \in Callers : Len(outs[c]) >= 2 /\ ~StepFailed(c, 2)
    /\ CreatedBase(1).documentId # CreatedBase(2).documentId
    /\ {CreatedBase(1).documentId, CreatedBase(2).documentId}
          = {e.documentId : e \in BaseRecords}

----------------------------------------------------------------------------
\* the first record of a discovery response o carries a documentId
FirstHasDoc(o) == Len(Records(o)) > 0 /\ HasDoc(Records(o)[1])

(* C25: within one create with a non-default locale the requests are       *)
(* strictly sequential, at most one in flight and each issued only once    *)
(* the outcome of the one before is known, in the order discovery GET,     *)
(* optional base-creation POST, localized write; the POST is issued only   *)
(* after a successful discovery that yielded no match, the localized write *)
(* only after a base documentId was obtained from a successful earlier     *)
(* response of the same invocation.                                        *)
C25_CreateSequence ==
    \A c \in Callers :
        (Op(c) = "create" /\ NonDefault(c))
        => /\ Len(reqs[c]) \in 1..3
           /\ Len(reqs[c]) - Len(outs[c]) \in {0, 1}
           /\ (Len(reqs[c]) - Len(outs[c]) = 1) <=> (inflight[c] # NoReq)
           /\ inflight[c] # NoReq => inflight[c] = reqs[c][Len(reqs[c])]
           /\ EffMethod(reqs[c][1]) = "GET" /\ IsCollection(reqs[c][1])
           /\ \A i \in 2..Len(reqs[c]) :
                 /\ IsCollectionPost(reqs[c][i]) \/ IsItem(reqs[c][i])
                 /\ EffMethod(reqs[c][i]) \in {"POST", "PUT"}
                 /\ ~StepFailed(c, i - 1)
                 /\ IsCollectionPost(reqs[c][i])
                    => i = 2 /\ ~FirstHasDoc(outs[c][1])
                 /\ IsItem(reqs[c][i])
                    => /\ i = Len(reqs[c])
                       /\ i = 2 => FirstHasDoc(outs[c][1])
                                   /\ reqs[c][i].path[2] = Records(outs[c][1])[1].documentId
                       /\ i = 3 => /\ IsCollectionPost(reqs[c][2])
                                   /\ CarriesRecord(outs[c][2]) /\ HasDoc(outs[c][2].body.data)
                                   /\ reqs[c][i].path[2] = outs[c][2].body.data.documentId

\* the localized write of a create is in flight after a discovery and a base creation
C25_Witness ==
    /\ Op(1) = "create" /\ NonDefault(1)
    /\ Len(reqs[1]) = 3 /\ Len(outs[1]) = 2 /\ inflight[1] = reqs[1][3]
    /\ IsCollectionPost(reqs[1][2]) /\ IsItem(reqs[1][3])

----------------------------------------------------------------------------
\* the values request r's query gives for key
ValuesOf(r, key) == {r.query.pairs[j][2] : j \in {k \in 1..Len(r.query.pairs) : r.query.pairs[k][1] = key}}

(* C26: upsert's search request always carries a page size of exactly one, *)
(* also when the caller's params contain their own pagination, carries the *)
(* filters if and only if filters were supplied and the locale if and only *)
(* if it is non-default; the caller's params go unmodified to the update   *)
(* or create that follows (the page size of one is not forwarded).         *)
C26_UpsertSearch ==
    \A c \in Callers :
        Op(c) = "upsert"
        => /\ EffMethod(reqs[c][1]) = "GET" /\ IsCollection(reqs[c][1])
           /\ ValuesOf(reqs[c][1], "pagination") = {"pageSize=1"}
           /\ ValuesOf(reqs[c][1], "filters")
                = IF call[c].a.filters # Undef THEN {call[c].a.filters} ELSE {}
           /\ CarriesLocale(reqs[c][1], call[c].a.locale) <=> LocaleGiven(call[c].a.locale)
           /\ frame[c].stage \notin {"upsert.findMany", "done"}
              => /\ frame[c].a.params = call[c].a.params
                 /\ frame[c].a.payload = call[c].a.payload
           /\ \A i \in 2..Len(reqs[c]) :
                 /\ "pageSize=1" \notin ValuesOf(reqs[c][i], "pagination")
                 /\ variant = "A"
                    => \A j \in 1..Len(call[c].a.params) :
                          call[c].a.params[j][1] # "locale"
                          => call[c].a.params[j][2]
                               \in ValuesOf(reqs[c][i], call[c].a.params[j][1])

\* an upsert whose params ask for a page size of ten searched with a page size of one and
\* handed the page size of ten on to the write that followed
C26_Witness ==
    /\ Op(1) = "upsert" /\ call[1].a.params = <<<<"pagination", "pageSize=10">>>>
    /\ variant = "A" /\ Len(reqs[1]) >= 2
    /\ ValuesOf(reqs[1][1], "pagination") = {"pageSize=1"}
    /\ ValuesOf(reqs[1][2], "pagination") = {"pageSize=10"}

----------------------------------------------------------------------------
(* C27: in create with a non-default locale, in both variants and for      *)
(* every params value, params with a locale field included, the discovery  *)
(* search and the base-creation POST address the default-locale            *)
(* collection: neither URL carries a locale parameter naming a non-default *)
(* locale.                                                                 *)
C27_BaseStepsDefaultLocale ==
    \A c \in Callers :
        (Op(c) = "create" /\ NonDefault(c))
        => \A i \in 1..Len(reqs[c]) :
              IsCollection(reqs[c][i]) => ValuesOf(reqs[c][i], "locale") \subseteq {"en"}

----------------------------------------------------------------------------
\* outcome o is a parsed success response
Parsed(o) == o.t = "resp" /\ Ok(o) /\ o.body.k # "unparsable"

\* outcome o of a discovery search shows a stored base record first
ShowsBase(o) ==
    /\ Parsed(o) /\ FirstHasDoc(o)
    /\ \E e \in BaseRecords : e.documentId = Records(o)[1].documentId

\* caller c's create in a non-default locale takes a step in which the answer to its
\* discovery search, now or one step ago, shows a stored base record
ReusingStep(c) ==
    /\ Op(c) = "create" /\ NonDefault(c)
    /\ Len(outs'[c]) = Len(outs[c]) + 1 /\ ShowsBase(outs'[c][1])

(* C28: against a server whose default-locale search returns the stored    *)
(* records matching the filters, once a create with a non-default locale   *)
(* has completed and created a matching base record, a second sequential   *)
(* create with the same payload, filters and locale issues exactly two     *)
(* requests, no base-creation POST, sends its localized write to the same  *)
(* documentId, and leaves the number of base records at one.               *)
C28_SecondCreateReusesBase ==
    [][\A c \in Callers :
          ReusingStep(c)
          => /\ Len(reqs'[c]) = 2
             /\ ~IsCollectionPost(reqs'[c][2]) /\ IsItem(reqs'[c][2])
             /\ reqs'[c][2].path = <<uid, Records(outs'[c][1])[1].documentId>>
             /\ BaseRecords' = BaseRecords
             /\ Len(outs'[c]) = 2 => frame'[c].stage = "done"]_vars

\* the second of two creates in locale "fr" returned after two requests, the server
\* holding the one base record the first create made
C28_Witness ==
    \E c \in Callers :
        /\ calls[1] + calls[2] = 2 /\ Op(c) = "create" /\ call[c].a.locale = "fr" /\ Done(c)
        /\ Len(reqs[c]) = 2 /\ AllSucceeded(c) /\ ShowsBase(outs[c][1])
        /\ Cardinality(BaseRecords) = 1
        /\ Cardinality({e \in store : e.locale = "fr"}) = 1
        /\ \A e \in store : e.by = "create"

----------------------------------------------------------------------------
(* C29: no public operation changes the client's stored base URL, header   *)
(* set or resource name and nothing is cached between calls: after any     *)
(* sequence of operations the three equal their values at construction,    *)
(* and the requests and the result of an invocation depend only on its     *)
(* arguments and on the transport responses it receives, not on earlier    *)
(* invocations.                                                            *)
C29_NoClientState ==
    /\ baseURL = constructor_baseURL(ctor.baseURL)
    /\ headers = constructor_headers(ctor.token)
    /\ uid = ctor.uid
    /\ \A c \in Callers :
          Op(c) # "none"
          => /\ reqs[c] = OpRequests(variant, Op(c), call[c].a, outs[c])
             /\ result[c] = OpResult(variant, Op(c), call[c].a, outs[c])
             /\ \A i \in 1..Len(sent[c]) :
                   sent[c][i] = fetchArgs(constructor_baseURL(ctor.baseURL),
                                          constructor_headers(ctor.token), reqs[c][i])

\* a caller's second invocation returned, the server having been written to by the first
C29_Witness ==
    /\ calls[1] = 2 /\ Done(1) /\ Op(1) = "upsert" /\ Len(reqs[1]) = 2
    /\ store # {} /\ baseURL = <<Host, Slash, ApiSeg>>

----------------------------------------------------------------------------
\* caller c's upsert, in a non-default locale and with filters, found no record in its
\* locale-scoped search and now receives the answer to the discovery search of the
\* create it delegated to, while the server holds a default-locale base record
\* matching the filters
DiscoveryAnswered(c) ==
    /\ Op(c) = "upsert" /\ NonDefault(c) /\ call[c].a.filters # Undef
    /\ Len(outs[c]) = 1 /\ Parsed(outs[c][1]) /\ Len(Records(outs[c][1])) = 0
    /\ Len(outs'[c]) = 2
    /\ BaseRecords # {}

(* C30: when upsert is called with a non-default locale and filters, its   *)
(* locale-scoped search returns no record and a default-locale base record *)
(* with a documentId matching the filters exists, upsert forwards filters  *)
(* and locale to create so that the whole upsert issues exactly three      *)
(* requests, the locale-scoped search, the default-locale discovery search *)
(* and the localized write to that base's documentId, and no base-creation *)
(* POST.                                                                   *)
C30_UpsertReusesBase ==
    [][\A c \in Callers :
          DiscoveryAnswered(c)
          => /\ CarriesLocale(reqs[c][1], call[c].a.locale)
             /\ EffMethod(reqs[c][2]) = "GET" /\ IsCollection(reqs[c][2])
             /\ ValuesOf(reqs[c][2], "filters") = {call[c].a.filters}
             /\ Len(reqs'[c]) = 3
             /\ IsItem(reqs'[c][3]) /\ ~IsCollectionPost(reqs'[c][3])
             /\ \E e \in BaseRecords : reqs'[c][3].path = <<uid, e.documentId>>
             /\ CarriesLocale(reqs'[c][3], call[c].a.locale)]_vars

====
